---------------------------- MODULE Spec2Model ----------------------------
(***************************************************************************)
(* Model of citlab_python_util/geometry/util.py: the segment intersection  *)
(* test check_intersection, the orthogonal polygon reconstruction          *)
(* ortho_connect, the polygon smoothing smooth_surrounding_polygon and the *)
(* baseline tolerances calc_tols, and of inverse_dict of                   *)
(* parser/xml/page/page_util.py.  Points are pairs <<x, y>>, a Rectangle   *)
(* is a record [x, y, width, height], a Python dict is a sequence of       *)
(* [k, v] records in insertion order, a Python list is a sequence.         *)
(***************************************************************************)
EXTENDS Integers, Sequences, FiniteSets

VARIABLES
    oc_pc,            \* "idle" | "call" | "done": position of the ortho_connect call
    rectangles,       \* the argument of ortho_connect
    points,           \* the vertex set after the parity filter
    all_polygons,     \* the polygons traced before nested-polygon removal
    final_polygons,   \* the returned list
    oc_raised,        \* "none", or the exception that ended the call
    ci_pc,            \* "idle" | "call" | "done": position of the check_intersection call
    line_1,           \* first argument of check_intersection, <<xs, ys>>
    line_2,           \* second argument of check_intersection, <<xs, ys>>
    ci_result,        \* what the call returned or raised
    sm_pc,            \* "idle" | "call" | "done": position of the smooth_surrounding_polygon call
    polygons,         \* first argument of smooth_surrounding_polygon
    poly_norm_dist,   \* second argument
    or_dims,          \* third argument, <<width_v, height_v, width_h, height_h>>
    sm_processed,     \* indices of the polygons the loop of line 231 has taken up
    sm_counts,        \* rect_counts of every vertex, in the order n, e, s, w
    sm_classified,    \* the orientations after the loop of lines 242-276
    sm_denoised,      \* the orientations after the loop of lines 279-282
    sm_collapsed,     \* the orientations after the loop of lines 287-310
    sm_first_edge,    \* "horizontal" | "vertical": is_horizontal at line 350, "none" before
    sm_result,        \* the returned vertex list
    sm_raised,        \* "none", or how the call ended without returning
    ct_pc,            \* "idle" | "call" | "done": position of the calc_tols call
    polys_truth,      \* first argument of calc_tols: the baselines, each a list of points
    tick_dist,        \* second argument
    max_d,            \* third argument
    rel_tol,          \* fourth argument, a fraction [n, d]
    ct_recorded,      \* tols after the loop of lines 451-490
    ct_tols,          \* the returned list, fractions [n, d]
    pp_pc,            \* "idle" | "call" | "done": position of the point_in_poly call
    pp_poly,          \* first argument of point_in_poly
    pp_point,         \* second argument
    pp_result,        \* the returned bool, "pending" before
    id_pc,            \* "idle" | "call" | "once" | "twice": calls of inverse_dict made
    dictionary,       \* the argument of the first call of inverse_dict
    id_value          \* what the last call returned; the argument of the next one

oc_vars == <<oc_pc, rectangles, points, all_polygons, final_polygons, oc_raised>>

ci_vars == <<ci_pc, line_1, line_2, ci_result>>

sm_vars == <<sm_pc, polygons, poly_norm_dist, or_dims, sm_processed, sm_counts,
             sm_classified, sm_denoised, sm_collapsed, sm_first_edge, sm_result,
             sm_raised>>

ct_vars == <<ct_pc, polys_truth, tick_dist, max_d, rel_tol, ct_recorded, ct_tols>>

pp_vars == <<pp_pc, pp_poly, pp_point, pp_result>>

id_vars == <<id_pc, dictionary, id_value>>

vars == <<oc_vars, ci_vars, sm_vars, ct_vars, pp_vars, id_vars>>

(***************************************************************************)
(* Bounds of the model.                                                    *)
(***************************************************************************)
MaxX == 3
MaxY == 2
MaxRects == 2
MaxPt == 3
MaxSquare == 2
MaxCorner == 2
MaxKeys == 2
MaxVal == 2
MaxList == 2
MaxAbscissa == 5
MaxOrdinate == 2
MaxLines == 3
MaxCoord == 2
MaxHalf == 3
MaxSide == 6
SideStep == 150
MaxShift == 2
MaxRow == 3
MaxBaselines == 3

(***************************************************************************)
(* Rectangle (geometry/rectangle.py): x, y is the top-left corner.         *)
(***************************************************************************)
Rectangle(x, y, width, height) == [x |-> x, y |-> y, width |-> width, height |-> height]

get_vertices(rect) ==
    << <<rect.x, rect.y>>,
       <<rect.x + rect.width, rect.y>>,
       <<rect.x + rect.width, rect.y + rect.height>>,
       <<rect.x, rect.y + rect.height>> >>

(***************************************************************************)
(* Python dict: insertion-ordered; d[k] = v keeps the place of an existing *)
(* key, pop(k) needs the key, popitem() removes the last inserted item.    *)
(***************************************************************************)
DictHas(d, k) == \E i \in 1..Len(d) : d[i].k = k

DictGet(d, k) == d[CHOOSE i \in 1..Len(d) : d[i].k = k].v

DictSet(d, k, v) ==
    IF DictHas(d, k)
    THEN [i \in 1..Len(d) |-> IF d[i].k = k THEN [k |-> k, v |-> v] ELSE d[i]]
    ELSE Append(d, [k |-> k, v |-> v])

DictPop(d, k) == SelectSeq(d, LAMBDA item : item.k # k)

DictPopItemKey(d) == d[Len(d)].k

DictPopItemRest(d) == SubSeq(d, 1, Len(d) - 1)

(***************************************************************************)
(* Lines 83-90: a vertex stays exactly when it was toggled an odd number   *)
(* of times.                                                               *)
(***************************************************************************)
(* A filter that only ever adds. *)
ToggleAddOnly(pts, pt) == pts \cup {pt}

Toggle(pts, pt) == IF pt \in pts THEN pts \ {pt} ELSE pts \cup {pt}

(* A vertex loop that stops one vertex early. *)
RECURSIVE ToggleAllButLast(_, _, _)
ToggleAllButLast(pts, vs, i) ==
    IF i >= Len(vs) THEN pts ELSE ToggleAllButLast(Toggle(pts, vs[i]), vs, i + 1)

RECURSIVE ToggleAll(_, _, _)
ToggleAll(pts, vs, i) ==
    IF i > Len(vs) THEN pts ELSE ToggleAll(Toggle(pts, vs[i]), vs, i + 1)

(* A rectangle loop that takes up the first rectangle only. *)
CollectFirst(pts, rects, i) ==
    IF rects = <<>> THEN pts ELSE ToggleAll(pts, get_vertices(rects[1]), 1)

RECURSIVE CollectPoints(_, _, _)
CollectPoints(pts, rects, i) ==
    IF i > Len(rects) THEN pts
    ELSE CollectPoints(ToggleAll(pts, get_vertices(rects[i]), 1), rects, i + 1)

(***************************************************************************)
(* Lines 92-101: the two sort orders.                                      *)
(***************************************************************************)
TupleLess(a, b) == a[1] < b[1] \/ (a[1] = b[1] /\ a[2] < b[2])

y_then_x(a, b) ==
    IF a[2] < b[2] \/ (a[2] = b[2] /\ a[1] < b[1]) THEN -1
    ELSE IF a = b THEN 0
    ELSE 1

RECURSIVE sorted_y_then_x(_)
sorted_y_then_x(S) ==
    IF S = {} THEN <<>>
    ELSE LET m == CHOOSE p \in S : \A q \in S \ {p} : y_then_x(p, q) = -1
         IN <<m>> \o sorted_y_then_x(S \ {m})

(* The column sort given the key of the row sort. *)
sorted_with_row_key(S) == sorted_y_then_x(S)

RECURSIVE sorted(_)
sorted(S) ==
    IF S = {} THEN <<>>
    ELSE LET m == CHOOSE p \in S : \A q \in S \ {p} : TupleLess(p, q)
         IN <<m>> \o sorted(S \ {m})

(***************************************************************************)
(* Lines 106-122: pair entries i and i+1 of every run of equal coordinate. *)
(* c is the coordinate compared (2 for rows, 1 for columns); reading entry *)
(* i+1 past the end of the list is an IndexError.  The result is           *)
(* [ok, i, edges].                                                         *)
(***************************************************************************)
RECURSIVE PairRun(_, _, _, _, _)
PairRun(srt, c, curr, i, edges) ==
    IF i <= Len(srt) /\ srt[i][c] = curr
    THEN IF i + 1 > Len(srt)
         THEN [ok |-> FALSE, i |-> i, edges |-> edges]
         ELSE PairRun(srt, c, curr, i + 2,
                      DictSet(DictSet(edges, srt[i], srt[i + 1]), srt[i + 1], srt[i]))
    ELSE [ok |-> TRUE, i |-> i, edges |-> edges]

RECURSIVE PairAll(_, _, _, _)
PairAll(srt, c, i, edges) ==
    IF i <= Len(srt)
    THEN LET run == PairRun(srt, c, srt[i][c], i, edges)
         IN IF run.ok THEN PairAll(srt, c, run.i, run.edges) ELSE run
    ELSE [ok |-> TRUE, i |-> i, edges |-> edges]

(***************************************************************************)
(* Lines 129-140: follow vertical and horizontal edges in turn until the   *)
(* start entry comes back; popping a missing key is a KeyError.            *)
(***************************************************************************)
RECURSIVE TracePolygon(_, _, _)
TracePolygon(polygon, eh, ev) ==
    LET curr == polygon[Len(polygon)][1]
        e    == polygon[Len(polygon)][2]
    IN IF e = 0
       THEN IF ~DictHas(ev, curr)
            THEN [ok |-> FALSE, polygon |-> polygon, eh |-> eh, ev |-> ev]
            ELSE LET nxt == <<DictGet(ev, curr), 1>>
                 IN IF nxt = polygon[1]
                    THEN [ok |-> TRUE, polygon |-> polygon, eh |-> eh, ev |-> DictPop(ev, curr)]
                    ELSE TracePolygon(Append(polygon, nxt), eh, DictPop(ev, curr))
       ELSE IF ~DictHas(eh, curr)
            THEN [ok |-> FALSE, polygon |-> polygon, eh |-> eh, ev |-> ev]
            ELSE LET nxt == <<DictGet(eh, curr), 0>>
                 IN IF nxt = polygon[1]
                    THEN [ok |-> TRUE, polygon |-> polygon, eh |-> DictPop(eh, curr), ev |-> ev]
                    ELSE TracePolygon(Append(polygon, nxt), DictPop(eh, curr), ev)

(* Lines 142-147: drop the markers and the edges left at the polygon's vertices. *)
RemoveMarkers(polygon) == [i \in 1..Len(polygon) |-> polygon[i][1]]

(* the edges left as they are after a polygon is traced *)
KeepVertices(edges, poly, i) == edges

RECURSIVE PopVertices(_, _, _)
PopVertices(edges, poly, i) ==
    IF i > Len(poly) THEN edges
    ELSE PopVertices(IF DictHas(edges, poly[i]) THEN DictPop(edges, poly[i]) ELSE edges,
                     poly, i + 1)

(* Lines 125-149: trace polygons while edges_h is not empty. *)
RECURSIVE TraceAll(_, _, _)
TraceAll(eh, ev, polys) ==
    IF eh = <<>> THEN [ok |-> TRUE, polys |-> polys]
    ELSE LET t == TracePolygon(<< <<DictPopItemKey(eh), 0>> >>, DictPopItemRest(eh), ev)
             poly == RemoveMarkers(t.polygon)
         IN IF ~t.ok THEN [ok |-> FALSE, polys |-> polys]
            ELSE TraceAll(PopVertices(t.eh, poly, 1), PopVertices(t.ev, poly, 1),
                          Append(polys, poly))

(***************************************************************************)
(* Lines 151-170: ray casting.  poly[i - 1] at the first entry is the last *)
(* entry.  The guard makes the two y-coordinates differ, and               *)
(*   px < (xp - xi) * (py - yi) / (yp - yi) + xi                           *)
(* is decided exactly by multiplying with the divisor.                     *)
(***************************************************************************)
(* A crossing test that counts a vertex at the height of the point as below it. *)
CrossesAtOrBelow(poly, i, point) ==
    LET cur  == poly[i]
        prev == poly[IF i = 1 THEN Len(poly) ELSE i - 1]
        num  == (prev[1] - cur[1]) * (point[2] - cur[2])
        den  == prev[2] - cur[2]
    IN /\ (cur[2] >= point[2]) # (prev[2] >= point[2])
       /\ IF den > 0 THEN (point[1] - cur[1]) * den < num
                     ELSE (point[1] - cur[1]) * den > num

Crosses(poly, i, point) ==
    LET cur  == poly[i]
        prev == poly[IF i = 1 THEN Len(poly) ELSE i - 1]
        num  == (prev[1] - cur[1]) * (point[2] - cur[2])
        den  == prev[2] - cur[2]
    IN /\ (cur[2] > point[2]) # (prev[2] > point[2])
       /\ IF den > 0 THEN (point[1] - cur[1]) * den < num
                     ELSE (point[1] - cur[1]) * den > num

point_in_poly(poly, point) ==
    Cardinality({i \in 1..Len(poly) : Crosses(poly, i, point)}) % 2 = 1

(* Lines 172-182. *)
point_in_polys(polys, point) ==
    \E i \in 1..Len(polys) : point_in_poly(polys[i], point)

(* list.remove: drops the first entry equal to x. *)
ListRemove(l, x) ==
    LET i == CHOOSE j \in 1..Len(l) : l[j] = x /\ \A k \in 1..(j - 1) : l[k] # x
    IN SubSeq(l, 1, i - 1) \o SubSeq(l, i + 1, Len(l))

(* Lines 184-195: remove polygons whose first vertex lies in another polygon. *)
RECURSIVE RemoveNested(_, _, _)
RemoveNested(all, final, i) ==
    IF i > Len(all) THEN final
    ELSE RemoveNested(all,
                      IF point_in_polys(ListRemove(all, all[i]), all[i][1])
                      THEN ListRemove(final, all[i]) ELSE final,
                      i + 1)

FinalPolygons(all) == IF Len(all) > 1 THEN RemoveNested(all, all, 1) ELSE all

(***************************************************************************)
(* ortho_connect as a whole: [raised, points, all_polygons, final].  The   *)
(* asserts of lines 78-79 test the types only; they hold for every list of *)
(* Rectangles, the empty list included.                                    *)
(***************************************************************************)
ortho_connect(rects) ==
    LET pts == CollectPoints({}, rects, 1)
        h   == PairAll(sorted_y_then_x(pts), 2, 1, <<>>)
        v   == PairAll(sorted(pts), 1, 1, <<>>)
        t   == TraceAll(h.edges, v.edges, <<>>)
    IN IF ~h.ok \/ ~v.ok
       THEN [raised |-> "IndexError", points |-> pts, all |-> <<>>, final |-> <<>>]
       ELSE IF ~t.ok
       THEN [raised |-> "KeyError", points |-> pts, all |-> t.polys, final |-> <<>>]
       ELSE [raised |-> "none", points |-> pts, all |-> t.polys,
             final |-> FinalPolygons(t.polys)]

(***************************************************************************)
(* The inputs: lists of at most MaxRects rectangles of positive size on    *)
(* the grid 0..MaxX x 0..MaxY, and pairs of equal squares of side at most  *)
(* MaxSquare, the second shifted by at most MaxSquare to the right and     *)
(* downwards, in both orders.                                              *)
(***************************************************************************)
Rects ==
    {Rectangle(x, y, w, h) : x \in 0..(MaxX - 1), y \in 0..(MaxY - 1),
                              w \in 1..MaxX, h \in 1..MaxY}

GridRects == {r \in Rects : r.x + r.width <= MaxX /\ r.y + r.height <= MaxY}

RectLists == UNION {[1..n -> GridRects] : n \in 0..MaxRects}

SquarePairs ==
    {IF first THEN <<Rectangle(0, 0, side, side), Rectangle(dx, dy, side, side)>>
              ELSE <<Rectangle(dx, dy, side, side), Rectangle(0, 0, side, side)>> :
        first \in BOOLEAN, side \in 1..MaxSquare, dx \in 0..MaxSquare, dy \in 0..MaxSquare}

OcInit ==
    /\ oc_pc = "call"
    /\ rectangles \in RectLists \cup SquarePairs
    /\ points = {}
    /\ all_polygons = <<>>
    /\ final_polygons = <<>>
    /\ oc_raised = "none"

OrthoConnect ==
    /\ oc_pc = "call"
    /\ \E r \in {ortho_connect(rectangles)} :
          /\ points' = r.points
          /\ all_polygons' = r.all
          /\ final_polygons' = r.final
          /\ oc_raised' = r.raised
    /\ oc_pc' = "done"
    /\ UNCHANGED rectangles


OcIdle ==
    /\ oc_pc = "idle"
    /\ rectangles = <<>>
    /\ points = {}
    /\ all_polygons = <<>>
    /\ final_polygons = <<>>
    /\ oc_raised = "none"

(***************************************************************************)
(* check_intersection (lines 10-67).  The arguments hold Python ints; the  *)
(* float64 values the code computes from them (the quotients s1, s2, the   *)
(* solution s, t of the linear system and the returned coordinates) are    *)
(* modelled by the exact rationals they round: Rat(n, d) is n/d in lowest  *)
(* terms with d > 0.  matrix_rank is the exact rank.                       *)
(***************************************************************************)
Abs(n) == IF n < 0 THEN -n ELSE n

RECURSIVE Gcd(_, _)
Gcd(a, b) == IF b = 0 THEN a ELSE Gcd(b, a % b)

Rat(n, d) ==
    LET g == Gcd(Abs(n), Abs(d))
    IN IF d > 0 THEN [n |-> n \div g, d |-> d \div g]
                ELSE [n |-> (-n) \div g, d |-> (-d) \div g]

(* Lines 28-32: A has the columns vs and -v; Ab is A with the column b added. *)
Det(a, b) == a[1] * b[2] - a[2] * b[1]

matrix_rank_A(vs, v) ==
    IF Det(vs, v) # 0 THEN 2
    ELSE IF vs # <<0, 0>> \/ v # <<0, 0>> THEN 1
    ELSE 0

matrix_rank_Ab(vs, v, b) ==
    IF Det(vs, v) # 0 \/ Det(vs, b) # 0 \/ Det(v, b) # 0 THEN 2
    ELSE IF vs # <<0, 0>> \/ v # <<0, 0>> \/ b # <<0, 0>> THEN 1
    ELSE 0

(* Line 64: 0 <= s <= 1 for s = n/d, d # 0. *)
InUnitOpen(n, d) == IF d > 0 THEN 0 < n /\ n < d ELSE d < n /\ n < 0

InUnit(n, d) == IF d > 0 THEN 0 <= n /\ n <= d ELSE d <= n /\ n <= 0

(***************************************************************************)
(* Lines 42-48 and 51-57: one overlap test of the collinear branch, for    *)
(* the point w (u in the first test, v in the second).  Dividing by a zero *)
(* component of vs raises ZeroDivisionError.  The result is "next" when    *)
(* the test returns nothing.                                               *)
(***************************************************************************)
OverlapTest(us, vs, w) ==
    IF vs[1] = 0 \/ vs[2] = 0 THEN [kind |-> "ZeroDivisionError"]
    ELSE IF (w[1] - us[1]) * vs[2] # (w[2] - us[2]) * vs[1] THEN [kind |-> "next"]
    ELSE IF 0 < (w[1] - us[1]) * vs[1] /\ Abs(w[1] - us[1]) < Abs(vs[1])
         THEN [kind |-> "inf"]
    ELSE IF w[1] - us[1] = 0
         THEN [kind |-> "point", x |-> Rat(us[1], 1), y |-> Rat(us[2], 1)]
    ELSE IF w[1] - us[1] = vs[1]
         THEN [kind |-> "point", x |-> Rat(us[1] + vs[1], 1), y |-> Rat(us[2] + vs[2], 1)]
    ELSE [kind |-> "next"]

(* Lines 38-60. *)
CollinearBranch(us, vs, u, v) ==
    LET first == OverlapTest(us, vs, u)
        second == OverlapTest(us, vs, v)
    IN IF first.kind # "next" THEN first
       ELSE IF second.kind # "next" THEN second
       ELSE [kind |-> "None"]

(***************************************************************************)
(* Lines 62-67: [s, t] = inv(A).dot(b).  With det = det(A),                *)
(* s = sn/det and t = tn/det; a singular A makes inv raise LinAlgError.    *)
(***************************************************************************)
SolveBranch(us, vs, v, b) ==
    LET det == Det(v, vs)
        sn  == Det(v, b)
        tn  == Det(vs, b)
    IN IF det = 0 THEN [kind |-> "LinAlgError"]
       ELSE IF ~(InUnit(sn, det) /\ InUnit(tn, det)) THEN [kind |-> "None"]
       ELSE [kind |-> "point",
             x |-> Rat(us[1] * det + sn * vs[1], det),
             y |-> Rat(us[2] * det + sn * vs[2], det)]

check_intersection(l1, l2) ==
    LET us == <<l1[1][1], l1[2][1]>>
        vs == <<l1[1][2] - l1[1][1], l1[2][2] - l1[2][1]>>
        u  == <<l2[1][1], l2[2][1]>>
        v  == <<l2[1][2] - l2[1][1], l2[2][2] - l2[2][1]>>
        b  == <<u[1] - us[1], u[2] - us[2]>>
        rank_A  == matrix_rank_A(vs, v)
        rank_Ab == matrix_rank_Ab(vs, v, b)
    IN IF rank_A # rank_Ab THEN [kind |-> "None"]
       ELSE IF rank_A = 1 THEN CollinearBranch(us, vs, u, v)
       ELSE SolveBranch(us, vs, v, b)

(* The inputs: segments between points of the grid 0..MaxPt x 0..MaxPt. *)
Lines == {<< <<x1, x2>>, <<y1, y2>> >> : x1 \in 0..MaxPt, x2 \in 0..MaxPt,
                                          y1 \in 0..MaxPt, y2 \in 0..MaxPt}

CiInit ==
    /\ ci_pc = "call"
    /\ line_1 \in Lines
    /\ line_2 \in Lines
    /\ ci_result = [kind |-> "pending"]

CiIdle ==
    /\ ci_pc = "idle"
    /\ line_1 = << <<0, 0>>, <<0, 0>> >>
    /\ line_2 = << <<0, 0>>, <<0, 0>> >>
    /\ ci_result = [kind |-> "pending"]

CheckIntersection ==
    /\ ci_pc = "call"
    /\ ci_result' = check_intersection(line_1, line_2)
    /\ ci_pc' = "done"
    /\ UNCHANGED <<line_1, line_2>>

(***************************************************************************)
(* smooth_surrounding_polygon (lines 198-379).  An entry of                *)
(* oriented_points is a record [pt, o]; the orientations are the strings   *)
(* of the code.                                                            *)
(***************************************************************************)
CornerTags == {"corner_ul", "corner_ur", "corner_dr", "corner_dl"}

Tags == CornerTags \cup {"vertical", "horizontal"}

(* the characters of an orientation string *)
Letters(tag) ==
    CASE tag = "vertical"   -> {"v", "e", "r", "t", "i", "c", "a", "l"}
      [] tag = "horizontal" -> {"h", "o", "r", "i", "z", "n", "t", "a", "l"}
      [] tag = "corner_ul"  -> {"c", "o", "r", "n", "e", "_", "u", "l"}
      [] tag = "corner_ur"  -> {"c", "o", "r", "n", "e", "_", "u"}
      [] tag = "corner_dr"  -> {"c", "o", "r", "n", "e", "_", "d"}
      [] tag = "corner_dl"  -> {"c", "o", "r", "n", "e", "_", "d", "l"}

(* Python's  s in tag  for the substrings the code asks for *)
In(s, tag) == IF s = "corner" THEN tag \in CornerTags ELSE s \in Letters(tag)

(* Rectangle.contains_point (geometry/rectangle.py): both borders count. *)
contains_point(rect, p) ==
    /\ rect.x <= p[1] /\ p[1] <= rect.x + rect.width
    /\ rect.y <= p[2] /\ p[2] <= rect.y + rect.height

Sign(a) == IF a > 0 THEN 1 ELSE IF a < 0 THEN 0 - 1 ELSE 0

(***************************************************************************)
(* norm_poly_dists (geometry/polygon.py): points at the distances          *)
(* 0, des_dist, 2 * des_dist, ... along the polyline, then its last point. *)
(* The polylines of the model have axis-parallel edges.  EdgeSamples       *)
(* gives the samples on the edge p -> q when the first one lies carry      *)
(* behind p, and the carry for the next edge.                              *)
(***************************************************************************)
EdgeSamples(p, q, carry, des_dist) ==
    LET len == Abs(q[1] - p[1]) + Abs(q[2] - p[2])
        m   == IF carry < len THEN ((len - carry - 1) \div des_dist) + 1 ELSE 0
    IN [pts   |-> [k \in 1..m |->
                     <<p[1] + Sign(q[1] - p[1]) * (carry + (k - 1) * des_dist),
                       p[2] + Sign(q[2] - p[2]) * (carry + (k - 1) * des_dist)>>],
        carry |-> carry + m * des_dist - len]

RECURSIVE Resample(_, _, _, _, _)
Resample(poly, i, carry, des_dist, acc) ==
    IF i >= Len(poly) THEN Append(acc, poly[Len(poly)])
    ELSE LET e == EdgeSamples(poly[i], poly[i + 1], carry, des_dist)
         IN Resample(poly, i + 1, e.carry, des_dist, acc \o e.pts)

norm_poly_dists(poly, des_dist) == Resample(poly, 1, 0, des_dist, <<>>)

(***************************************************************************)
(* Lines 233-235: the polygon is closed on a copy.  caller is the caller's *)
(* list afterwards, surrounding the working list.                          *)
(***************************************************************************)
CloseOnAlias(polygon) ==
    LET closed == IF polygon[1] # polygon[Len(polygon)]
                  THEN Append(polygon, polygon[1]) ELSE polygon
    IN [caller |-> closed, surrounding |-> closed]

CloseOnCopy(polygon) ==
    [caller      |-> polygon,
     surrounding |-> IF polygon[1] # polygon[Len(polygon)]
                     THEN Append(polygon, polygon[1]) ELSE polygon]

(* Lines 247-252: the four probe rectangles of a vertex, in dict order. *)
o_rects(pt, dims) ==
    << [k |-> "n", v |-> Rectangle(pt[1] - (dims[1] \div 2), pt[2] - dims[2], dims[1], dims[2])],
       [k |-> "e", v |-> Rectangle(pt[1], pt[2] - (dims[4] \div 2), dims[3], dims[4])],
       [k |-> "s", v |-> Rectangle(pt[1] - (dims[1] \div 2), pt[2], dims[1], dims[2])],
       [k |-> "w", v |-> Rectangle(pt[1] - dims[3], pt[2] - (dims[4] \div 2), dims[3], dims[4])] >>

(* Lines 254-258: the number of resampled points in each probe rectangle. *)
rect_counts(pt, poly_norm, dims) ==
    LET rects == o_rects(pt, dims)
    IN [r \in 1..4 |->
           [k |-> rects[r].k,
            v |-> Cardinality({i \in 1..Len(poly_norm) :
                                  contains_point(rects[r].v, poly_norm[i])})]]

(* where sorted(..., reverse=True) puts x into the sorted list s *)
InsertBeforeEqual(s, x) ==
    LET k == Cardinality({i \in 1..Len(s) : s[i].v > x.v})
    IN SubSeq(s, 1, k) \o <<x>> \o SubSeq(s, k + 1, Len(s))

InsertAfterEqual(s, x) ==
    LET k == Cardinality({i \in 1..Len(s) : s[i].v >= x.v})
    IN SubSeq(s, 1, k) \o <<x>> \o SubSeq(s, k + 1, Len(s))

(* Line 261: descending by count; entries with equal counts keep their order. *)
RECURSIVE sorted_counts(_)
sorted_counts(items) ==
    IF items = <<>> THEN <<>>
    ELSE InsertAfterEqual(sorted_counts(SubSeq(items, 1, Len(items) - 1)), items[Len(items)])

(* Line 262. *)
top_two(counts) ==
    LET sc == sorted_counts(counts)
    IN {sc[1].k, sc[2].k}

(* Lines 263-274. *)
pt_o(tt) ==
    IF "n" \in tt /\ "s" \in tt THEN "vertical"
    ELSE IF "e" \in tt /\ "w" \in tt THEN "horizontal"
    ELSE IF "e" \in tt /\ "s" \in tt THEN "corner_ul"
    ELSE IF "w" \in tt /\ "s" \in tt THEN "corner_ur"
    ELSE IF "w" \in tt /\ "n" \in tt THEN "corner_dr"
    ELSE "corner_dl"

(* the pass with every comparison made on the list as it was classified *)
FixSinglesAsClassified(op, i) ==
    [k \in 1..Len(op) |->
        LET prev == op[IF k = 1 THEN Len(op) ELSE k - 1]
            next == op[(k % Len(op)) + 1]
        IN IF prev.o # op[k].o /\ prev.o = next.o
           THEN [op[k] EXCEPT !.o = prev.o] ELSE op[k]]

(* Lines 279-282: the pass works on the list itself, vertex by vertex. *)
RECURSIVE FixSingles(_, _)
FixSingles(op, i) ==
    IF i > Len(op) THEN op
    ELSE LET prev == op[IF i = 1 THEN Len(op) ELSE i - 1]
             next == op[(i % Len(op)) + 1]
         IN FixSingles(IF prev.o # op[i].o /\ prev.o = next.o
                       THEN [op EXCEPT ![i].o = prev.o] ELSE op, i + 1)

(* Lines 291-295: the indices the while loop appends, from j on. *)
RECURSIVE corner_cluster(_, _, _)
corner_cluster(op, i, j) ==
    IF op[i].o = op[j].o THEN <<j>> \o corner_cluster(op, i, (j % Len(op)) + 1)
    ELSE <<>>

(* Line 298: ascending by y; entries with equal y keep their order. *)
RECURSIVE sorted_by_y(_, _)
sorted_by_y(op, cluster) ==
    IF cluster = <<>> THEN <<>>
    ELSE LET s == sorted_by_y(op, SubSeq(cluster, 1, Len(cluster) - 1))
             x == cluster[Len(cluster)]
             k == Cardinality({m \in 1..Len(s) : op[s[m]].pt[2] <= op[x].pt[2]})
         IN SubSeq(s, 1, k) \o <<x>> \o SubSeq(s, k + 1, Len(s))

(* Lines 301-306. *)
cluster_to_remove(op, i, by_y) ==
    IF In("u", op[i].o) THEN SubSeq(by_y, 2, Len(by_y))
    ELSE SubSeq(by_y, 1, Len(by_y) - 1)

(* Lines 308-310. *)
Relabel(op, remove) ==
    [j \in 1..Len(op) |->
        IF \E m \in 1..Len(remove) : remove[m] = j
        THEN [op[j] EXCEPT !.o = "vertical"] ELSE op[j]]

(***************************************************************************)
(* Lines 287-310, on the list itself.  The while loop of line 293 ends     *)
(* only at a vertex with another orientation: when every vertex carries    *)
(* the corner tag of vertex i the loop does not end (ok = FALSE).          *)
(***************************************************************************)
RECURSIVE CollapseCorners(_, _)
CollapseCorners(op, i) ==
    IF i > Len(op) THEN [ok |-> TRUE, op |-> op]
    ELSE IF ~In("corner", op[i].o) THEN CollapseCorners(op, i + 1)
    ELSE IF \A j \in 1..Len(op) : op[j].o = op[i].o THEN [ok |-> FALSE, op |-> op]
    ELSE LET cluster == <<i>> \o corner_cluster(op, i, (i % Len(op)) + 1)
         IN IF Len(cluster) > 1
            THEN CollapseCorners(
                     Relabel(op, cluster_to_remove(op, i, sorted_by_y(op, cluster))), i + 1)
            ELSE CollapseCorners(op, i + 1)

(* Lines 313-319: start at the first corner and repeat the first entry. *)
corner_idx(op) ==
    IF \E i \in 1..Len(op) : In("corner", op[i].o)
    THEN CHOOSE i \in 1..Len(op) :
            In("corner", op[i].o) /\ \A k \in 1..(i - 1) : ~In("corner", op[k].o)
    ELSE 1

Rotated(op) ==
    LET c == corner_idx(op)
        r == SubSeq(op, c, Len(op)) \o SubSeq(op, 1, c - 1)
    IN Append(r, r[1])

(* Lines 322-325: the indices of the corners, ascending. *)
RECURSIVE corner_ids(_, _)
corner_ids(op, i) ==
    IF i > Len(op) THEN <<>>
    ELSE (IF In("corner", op[i].o) THEN <<i>> ELSE <<>>) \o corner_ids(op, i + 1)

(* Lines 332-347: the direction of the edge that leaves the first corner. *)
is_horizontal(op, ids) ==
    LET o_1 == op[ids[1]].o
        o_2 == op[ids[2]].o
    IN IF (In("u", o_1) /\ In("u", o_2)) \/ (In("d", o_1) /\ In("d", o_2)) THEN TRUE
       ELSE IF (In("r", o_1) /\ In("r", o_2)) \/ (In("l", o_1) /\ In("l", o_2)) THEN FALSE
       ELSE IF Abs(op[ids[1]].pt[1] - op[ids[2]].pt[1]) < Abs(op[ids[1]].pt[2] - op[ids[2]].pt[2])
       THEN FALSE
       ELSE TRUE

(* round(n / d) of Python 3 for d > 0: a tie goes to the even neighbour. *)
Round(n, d) ==
    LET q == n \div d
        r == n - q * d
    IN IF 2 * r < d THEN q
       ELSE IF 2 * r > d THEN q + 1
       ELSE IF q % 2 = 0 THEN q ELSE q + 1

RECURSIVE SumAxis(_, _, _)
SumAxis(cluster, j, i) ==
    IF i > Len(cluster) THEN 0 ELSE cluster[i].pt[j + 1] + SumAxis(cluster, j, i + 1)

(***************************************************************************)
(* Lines 350-367: j is the axis (0 for x, 1 for y) of the next coordinate; *)
(* a cluster of more than four points gives the rounded mean, a shorter    *)
(* one the coordinates of all its points but the last.                     *)
(***************************************************************************)
RECURSIVE smoothed_edges(_, _, _, _, _)
smoothed_edges(op, ids, i, j, acc) ==
    IF i >= Len(ids) THEN acc
    ELSE LET cluster == SubSeq(op, ids[i], ids[i + 1])
         IN IF Len(cluster) > 4
            THEN smoothed_edges(op, ids, i + 1, 1 - j,
                                Append(acc, Round(SumAxis(cluster, j, 1), Len(cluster))))
            ELSE smoothed_edges(op, ids, i + 1, (j + Len(cluster) - 1) % 2,
                                acc \o [k \in 1..(Len(cluster) - 1) |->
                                           cluster[k].pt[((j + k - 1) % 2) + 1]])

(* the coordinates paired in the order of the list at every vertex *)
smoothed_polygons_unswapped(edges, horizontal) ==
    [i \in 1..Len(edges) |-> <<edges[i], edges[(i % Len(edges)) + 1]>>]

(* Lines 370-377: is_horizontal flips after every vertex. *)
smoothed_polygons(edges, horizontal) ==
    [i \in 1..Len(edges) |->
        IF horizontal = (i % 2 = 1)
        THEN <<edges[(i % Len(edges)) + 1], edges[i]>>
        ELSE <<edges[i], edges[(i % Len(edges)) + 1]>>]

(* Lines 242-276: every vertex of the caller's list with its orientation. *)
Classified(polygon, counts) ==
    [i \in 1..Len(polygon) |-> [pt |-> polygon[i], o |-> pt_o(top_two(counts[i]))]]

(* Lines 313-378; corner_ids[0] fails when no vertex is a corner. *)
Emit(op) ==
    LET r   == Rotated(op)
        ids == corner_ids(r, 1)
        h   == is_horizontal(r, ids)
    IN IF Len(ids) < 2 THEN [raised |-> "IndexError", first_edge |-> "none", result |-> <<>>]
       ELSE [raised |-> "none",
             first_edge |-> IF h THEN "horizontal" ELSE "vertical",
             result |-> smoothed_polygons(
                            smoothed_edges(r, ids, 1, IF h THEN 1 ELSE 0, <<>>), h)]

Orientations(op) == [i \in 1..Len(op) |-> op[i].o]

(* Lines 279-378 from the classified list on. *)
Passes(caller, counts, classified) ==
    LET denoised  == FixSingles(classified, 1)
        collapsed == CollapseCorners(denoised, 1)
        emitted   == IF collapsed.ok THEN Emit(collapsed.op)
                     ELSE [raised |-> "diverges", first_edge |-> "none", result |-> <<>>]
    IN [caller     |-> caller,
        counts     |-> counts,
        classified |-> Orientations(classified),
        denoised   |-> Orientations(denoised),
        collapsed  |-> IF collapsed.ok THEN Orientations(collapsed.op) ELSE <<>>,
        raised     |-> emitted.raised,
        first_edge |-> emitted.first_edge,
        result     |-> emitted.result]

(* Lines 233-276, then the passes. *)
SmoothPolygon(polygon, des_dist, dims) ==
    LET closed    == CloseOnCopy(polygon)
        poly_norm == norm_poly_dists(closed.surrounding, des_dist)
        counts    == [i \in 1..Len(closed.caller) |->
                         rect_counts(closed.caller[i], poly_norm, dims)]
    IN Passes(closed.caller, counts, Classified(closed.caller, counts))

(* the polygons every iteration of the loop of line 231 is run for *)
IterationsToEnd(polys) == [i \in 1..Len(polys) |-> i]

(* Lines 231 and 379: the return statement ends the loop in its first iteration. *)
Iterations(polys) == IF polys = <<>> THEN <<>> ELSE <<1>>

(***************************************************************************)
(* smooth_surrounding_polygon as a whole.  Without a polygon the loop body *)
(* never runs and the call returns None (result <<>>, processed <<>>).     *)
(***************************************************************************)
smooth_surrounding_polygon(polys, des_dist, dims) ==
    LET its  == Iterations(polys)
        last == its[Len(its)]
    IN IF its = <<>>
       THEN [raised |-> "none", result |-> <<>>, processed |-> <<>>, polygons |-> polys,
             first_edge |-> "none",
             counts |-> <<>>, classified |-> <<>>, denoised |-> <<>>, collapsed |-> <<>>]
       ELSE LET r == SmoothPolygon(polys[last], des_dist, dims)
            IN [raised |-> r.raised, result |-> r.result, processed |-> its,
                first_edge |-> r.first_edge,
                polygons |-> [polys EXCEPT ![last] = r.caller],
                counts |-> r.counts, classified |-> r.classified,
                denoised |-> r.denoised, collapsed |-> r.collapsed]

(***************************************************************************)
(* The inputs.  Polygons with axis-parallel edges and 2n vertices on the   *)
(* grid 0..MaxCoord x 0..MaxCoord, n <= MaxHalf, with either first edge;   *)
(* and the polygons of one vertex on the same grid;                        *)
(* they are smoothed with spacing 1 and small probe rectangles, alone or   *)
(* followed by a second polygon.  The rectangles with sides k * SideStep,  *)
(* k <= MaxSide, from each corner in both directions, are smoothed with    *)
(* the defaults of line 198.                                               *)
(***************************************************************************)
Cyclic(n) ==
    {s \in [1..n -> 0..MaxCoord] : \A i \in 1..n : s[i] # s[(i % n) + 1]}

HFirst(xs, ys) ==
    [i \in 1..(2 * Len(xs)) |-> <<xs[((i \div 2) % Len(xs)) + 1], ys[(i + 1) \div 2]>>]

VFirst(xs, ys) ==
    [i \in 1..(2 * Len(xs)) |-> <<xs[(i + 1) \div 2], ys[((i \div 2) % Len(xs)) + 1]>>]

RECURSIVE PolygonsUpTo(_)
PolygonsUpTo(n) ==
    IF n < 2 THEN {}
    ELSE PolygonsUpTo(n - 1)
         \cup {IF h THEN HFirst(xs, ys) ELSE VFirst(xs, ys) :
                  h \in BOOLEAN, xs \in Cyclic(n), ys \in Cyclic(n)}

OrthoPolygons == PolygonsUpTo(MaxHalf)

(* Polygons of a single vertex. *)
PointPolygons == {<<pt>> : pt \in (0..MaxCoord) \X (0..MaxCoord)}

SecondPolygon == HFirst(<<0, MaxCoord>>, <<0, MaxCoord>>)

SmallDims == {<<1, 1, 1, 1>>, <<2, 2, 1, 1>>}

DefaultDist == 10

DefaultDims == <<400, 800, 600, 400>>

Sides == {k * SideStep : k \in 1..MaxSide}

RectanglePolygons ==
    UNION {{HFirst(<<x, w - x>>, <<y, h - y>>) : x \in {0, w}, y \in {0, h}}
           \cup {VFirst(<<x, w - x>>, <<y, h - y>>) : x \in {0, w}, y \in {0, h}} :
           w \in Sides, h \in Sides}

SmInit ==
    /\ sm_pc = "call"
    /\ \/ /\ polygons \in {<<>>} \cup {<<p>> : p \in OrthoPolygons \cup PointPolygons}
          /\ poly_norm_dist = 1
          /\ or_dims \in SmallDims
       \/ /\ polygons \in {<<p, SecondPolygon>> : p \in OrthoPolygons}
          /\ poly_norm_dist = 1
          /\ or_dims = <<1, 1, 1, 1>>
       \/ /\ polygons \in {<<p>> : p \in RectanglePolygons}
          /\ poly_norm_dist = DefaultDist
          /\ or_dims = DefaultDims
    /\ sm_processed = <<>>
    /\ sm_counts = <<>>
    /\ sm_classified = <<>>
    /\ sm_denoised = <<>>
    /\ sm_collapsed = <<>>
    /\ sm_first_edge = "none"
    /\ sm_result = <<>>
    /\ sm_raised = "none"

SmoothSurroundingPolygon ==
    /\ sm_pc = "call"
    /\ \E r \in {smooth_surrounding_polygon(polygons, poly_norm_dist, or_dims)} :
          /\ polygons' = r.polygons
          /\ sm_processed' = r.processed
          /\ sm_counts' = r.counts
          /\ sm_classified' = r.classified
          /\ sm_denoised' = r.denoised
          /\ sm_collapsed' = r.collapsed
          /\ sm_first_edge' = r.first_edge
          /\ sm_result' = r.result
          /\ sm_raised' = r.raised
    /\ sm_pc' = "done"
    /\ UNCHANGED <<poly_norm_dist, or_dims>>

SmIdle ==
    /\ sm_pc = "idle"
    /\ polygons = <<>>
    /\ poly_norm_dist = DefaultDist
    /\ or_dims = DefaultDims
    /\ sm_processed = <<>>
    /\ sm_counts = <<>>
    /\ sm_classified = <<>>
    /\ sm_denoised = <<>>
    /\ sm_collapsed = <<>>
    /\ sm_first_edge = "none"
    /\ sm_result = <<>>
    /\ sm_raised = "none"

(***************************************************************************)
(* calc_tols (lines 438-509).  A baseline is the list of its points.  The  *)
(* distances are whole numbers; the mean and the tolerances are fractions  *)
(* [n, d] in lowest terms.                                                 *)
(***************************************************************************)
RatLess(a, b) == a.n * b.d < b.n * a.d

RatMul(a, b) == Rat(a.n * b.n, a.d * b.d)

SetMin(S) == CHOOSE m \in S : \A k \in S : m <= k

SetMax(S) == CHOOSE m \in S : \A k \in S : k <= m

(* Polygon.get_bounding_box (geometry/polygon.py). *)
get_bounding_box(poly) ==
    LET xs == {poly[k][1] : k \in 1..Len(poly)}
        ys == {poly[k][2] : k \in 1..Len(poly)}
    IN Rectangle(SetMin(xs), SetMin(ys), SetMax(xs) - SetMin(xs), SetMax(ys) - SetMin(ys))

(***************************************************************************)
(* Lines 453-455 with calc_reg_line_stats (geometry/polygon.py): the       *)
(* orientation vector <<or_vec_x, or_vec_y>>.  The baselines of the model  *)
(* are horizontal and run from left to right: the angle is 0.              *)
(***************************************************************************)
or_vec(poly) == <<1, 0>>

(* Lines 382-402. *)
get_dist_fast(point, bb) ==
    (IF point[1] < bb.x THEN bb.x - point[1] ELSE 0)
    + (IF point[1] > bb.x + bb.width THEN point[1] - bb.x - bb.width ELSE 0)
    + (IF point[2] < bb.y THEN bb.y - point[2] ELSE 0)
    + (IF point[2] > bb.y + bb.height THEN point[2] - bb.y - bb.height ELSE 0)

(* Lines 405-419. *)
get_in_dist(p1, p2, or_vec_x, or_vec_y) ==
    (p1[1] - p2[1]) * or_vec_x + (p2[2] - p1[2]) * or_vec_y

(* the offline distance with the two components of the vector exchanged *)
get_off_dist_exchanged(p1, p2, or_vec_x, or_vec_y) ==
    (p1[1] - p2[1]) * or_vec_x - (p2[2] - p1[2]) * or_vec_y

(* Lines 422-435. *)
get_off_dist(p1, p2, or_vec_x, or_vec_y) ==
    (p1[1] - p2[1]) * or_vec_y - (p2[2] - p1[2]) * or_vec_x

(* Lines 472-482: the four signed distances between the ends all have one sign. *)
NoInlineOverlap(poly_a, poly_b, v) ==
    LET in_dists == {get_in_dist(pa, pb, v[1], v[2]) :
                        pa \in {poly_a[1], poly_a[Len(poly_a)]},
                        pb \in {poly_b[1], poly_b[Len(poly_b)]}}
    IN (\A x \in in_dists : x < 0) \/ (\A x \in in_dists : x > 0)

(* Lines 484-486. *)
ScanPoints(p_a, poly_b, dist, tick, v) ==
    LET near == {Abs(get_off_dist(p_a, poly_b[k], v[1], v[2])) : k \in
                    {k \in 1..Len(poly_b) :
                        Abs(get_in_dist(p_a, poly_b[k], v[1], v[2])) <= 2 * tick}}
    IN SetMin(near \cup {dist})

(* Lines 465-486 for the point p_a of baseline a: the baselines from b on; *)
(* bbs holds the bounding boxes of the baselines.                          *)
RECURSIVE AgainstPolys(_, _, _, _, _, _, _)
AgainstPolys(polys, bbs, a, p_a, b, dist, tick) ==
    IF b > Len(polys) THEN dist
    ELSE IF b = a THEN AgainstPolys(polys, bbs, a, p_a, b + 1, dist, tick)
    ELSE IF get_dist_fast(p_a, bbs[b]) > dist
    THEN AgainstPolys(polys, bbs, a, p_a, b + 1, dist, tick)
    ELSE IF NoInlineOverlap(polys[a], polys[b], or_vec(polys[a]))
    THEN AgainstPolys(polys, bbs, a, p_a, b + 1, dist, tick)
    ELSE AgainstPolys(polys, bbs, a, p_a, b + 1,
                      ScanPoints(p_a, polys[b], dist, tick, or_vec(polys[a])), tick)

(* Lines 462-486: the points of baseline a from the k-th on. *)
RECURSIVE OverPoints(_, _, _, _, _, _)
OverPoints(polys, bbs, a, k, dist, tick) ==
    IF k > Len(polys[a]) THEN dist
    ELSE OverPoints(polys, bbs, a, k + 1,
                    AgainstPolys(polys, bbs, a, polys[a][k], 1, dist, tick), tick)

(* Lines 456 and 487-490: 0 stands for no distance below max_d. *)
Recorded(polys, tick, maxd) ==
    LET bbs == [b \in 1..Len(polys) |-> get_bounding_box(polys[b])]
    IN [a \in 1..Len(polys) |->
           LET dist == OverPoints(polys, bbs, a, 1, maxd, tick)
           IN IF dist < maxd THEN dist ELSE 0]

RECURSIVE SumSeq(_, _)
SumSeq(s, i) == IF i > Len(s) THEN 0 ELSE s[i] + SumSeq(s, i + 1)

(* the mean without the fallback of line 499 *)
mean_tols_or_zero(tols, maxd) ==
    LET num_tols == Cardinality({i \in 1..Len(tols) : tols[i] # 0})
    IN IF num_tols # 0 THEN Rat(SumSeq(tols, 1), num_tols) ELSE Rat(0, 1)

(* Lines 492-501. *)
mean_tols(tols, maxd) ==
    LET num_tols == Cardinality({i \in 1..Len(tols) : tols[i] # 0})
    IN IF num_tols # 0 THEN Rat(SumSeq(tols, 1), num_tols) ELSE Rat(maxd, 1)

(* the entry scaled without the clamp of line 506 *)
ScaledUnclamped(tol, mean, rel) ==
    RatMul(IF tol = 0 THEN mean ELSE Rat(tol, 1), rel)

(* Lines 503-507 for one entry. *)
Scaled(tol, mean, rel) ==
    LET filled == IF tol = 0 THEN mean ELSE Rat(tol, 1)
    IN RatMul(IF RatLess(mean, filled) THEN mean ELSE filled, rel)

calc_tols(polys, tick, maxd, rel) ==
    LET tols == Recorded(polys, tick, maxd)
        mean == mean_tols(tols, maxd)
    IN [recorded |-> tols,
        tols     |-> [i \in 1..Len(tols) |-> Scaled(tols[i], mean, rel)]]

(***************************************************************************)
(* The inputs.  The baseline <<r, s>> runs in row r over the three ticks   *)
(* 2s .. 2s + 2, so that neighbours in s touch and others do not; its      *)
(* points are tick_dist apart and the rows 4 * tick_dist.  The lists hold  *)
(* at most MaxBaselines different baselines, in ascending or descending    *)
(* order of <<r, s>>.  The parameters are the defaults of line 438 or      *)
(* small.                                                                  *)
(***************************************************************************)
BaselineKeys == (0..MaxRow) \X (0..MaxShift)

RECURSIVE Ascending(_)
Ascending(n) ==
    IF n = 0 THEN {<<>>}
    ELSE {l \in {Append(shorter, key) : shorter \in Ascending(n - 1), key \in BaselineKeys} :
             n = 1 \/ TupleLess(l[n - 1], l[n])}

Descending(l) == [i \in 1..Len(l) |-> l[Len(l) + 1 - i]]

Baseline(k, tick) ==
    [i \in 1..3 |-> <<(2 * k[2] + i - 1) * tick, k[1] * 4 * tick>>]

Parameters == {[tick_dist |-> 5, max_d |-> 250], [tick_dist |-> 1, max_d |-> 10]}

DefaultRelTol == Rat(1, 4)

CtInit ==
    /\ ct_pc = "call"
    /\ \E par \in Parameters, n \in 0..MaxBaselines :
          /\ tick_dist = par.tick_dist
          /\ max_d = par.max_d
          /\ \E l \in Ascending(n), order \in {"ascending", "descending"} :
                polys_truth = [i \in 1..n |->
                                 Baseline(IF order = "ascending" THEN l[i] ELSE Descending(l)[i],
                                          par.tick_dist)]
    /\ rel_tol = DefaultRelTol
    /\ ct_recorded = <<>>
    /\ ct_tols = <<>>

(***************************************************************************)
(* Further inputs: lists of at most MaxLines horizontal baselines of two   *)
(* points each, with any whole-numbered ends in 0..MaxAbscissa, in the     *)
(* rows 0..MaxOrdinate, in any order and with repetitions, for the small   *)
(* parameters.                                                             *)
(***************************************************************************)
Segments == {seg \in (0..MaxAbscissa) \X (0..MaxAbscissa) : seg[1] < seg[2]}

TwoPointBaselines ==
    {<< <<seg[1], y>>, <<seg[2], y>> >> : seg \in Segments, y \in 0..MaxOrdinate}

CtInitTwoPoint ==
    /\ ct_pc = "call"
    /\ \E par \in {q \in Parameters : q.tick_dist = 1} :
          /\ tick_dist = par.tick_dist
          /\ max_d = par.max_d
    /\ \E n \in 0..MaxLines : polys_truth \in [1..n -> TwoPointBaselines]
    /\ rel_tol = DefaultRelTol
    /\ ct_recorded = <<>>
    /\ ct_tols = <<>>

CalcTols ==
    /\ ct_pc = "call"
    /\ \E r \in {calc_tols(polys_truth, tick_dist, max_d, rel_tol)} :
          /\ ct_recorded' = r.recorded
          /\ ct_tols' = r.tols
    /\ ct_pc' = "done"
    /\ UNCHANGED <<polys_truth, tick_dist, max_d, rel_tol>>

CtIdle ==
    /\ ct_pc = "idle"
    /\ polys_truth = <<>>
    /\ tick_dist = 5
    /\ max_d = 250
    /\ rel_tol = DefaultRelTol
    /\ ct_recorded = <<>>
    /\ ct_tols = <<>>

(***************************************************************************)
(* point_in_poly (lines 151-170) called on its own.  The polygon is an     *)
(* axis-parallel rectangle with its corners on even coordinates, its       *)
(* vertices listed from any corner in either direction; the point has any  *)
(* coordinates from one below to one above them, so that it can lie on,    *)
(* between and outside the lines of the corners.                           *)
(***************************************************************************)
EvenCoords == {2 * k : k \in 0..MaxCorner}

RectanglePath(x0, y0, x1, y1) == << <<x0, y0>>, <<x1, y0>>, <<x1, y1>>, <<x0, y1>> >>

RectanglePaths ==
    {IF forward THEN path ELSE Descending(path) :
        forward \in BOOLEAN,
        path \in {[i \in 1..4 |-> RectanglePath(c[1], c[2], c[3], c[4])[((i + k - 1) % 4) + 1]] :
                     k \in 0..3,
                     c \in {c \in EvenCoords \X EvenCoords \X EvenCoords \X EvenCoords :
                               c[1] < c[3] /\ c[2] < c[4]}}}

PpInit ==
    /\ pp_pc = "call"
    /\ pp_poly \in RectanglePaths
    /\ pp_point \in (-1..(2 * MaxCorner + 1)) \X (-1..(2 * MaxCorner + 1))
    /\ pp_result = "pending"

PointInPoly ==
    /\ pp_pc = "call"
    /\ pp_result' = point_in_poly(pp_poly, pp_point)
    /\ pp_pc' = "done"
    /\ UNCHANGED <<pp_poly, pp_point>>

PpIdle ==
    /\ pp_pc = "idle"
    /\ pp_poly = <<>>
    /\ pp_point = <<0, 0>>
    /\ pp_result = "pending"

(***************************************************************************)
(* inverse_dict (parser/xml/page/page_util.py, lines 24-44).  Keys and     *)
(* the members of the values are hashable atoms, here integers.  A value   *)
(* of a dict is a record [list, v]: a list carries its members in v, a     *)
(* scalar carries itself as the only member of v.                          *)
(***************************************************************************)
Scalar(x) == [list |-> FALSE, v |-> <<x>>]

List(l) == [list |-> TRUE, v |-> l]

(* Lines 32-33: a value that is no list is wrapped in a list. *)
Wrapped(value) == value.v

(* Lines 36-37: rev_dict[val] = rev_dict.get(val, []) followed by append(key). *)
AppendKey(rev_dict, val, key) ==
    DictSet(rev_dict, val,
            List(Append(IF DictHas(rev_dict, val) THEN DictGet(rev_dict, val).v ELSE <<>>, key)))

(* Lines 34-37: the loop over the members of one value. *)
RECURSIVE OverValue(_, _, _, _)
OverValue(rev_dict, value, key, i) ==
    IF i > Len(value) THEN rev_dict
    ELSE OverValue(AppendKey(rev_dict, value[i], key), value, key, i + 1)

(* Lines 31-37: the loop over the items of the dictionary. *)
RECURSIVE OverItems(_, _, _)
OverItems(rev_dict, d, i) ==
    IF i > Len(d) THEN rev_dict
    ELSE OverItems(OverValue(rev_dict, Wrapped(d[i].v), d[i].k, 1), d, i + 1)

(* Lines 41-43: a list of one key is replaced by that key. *)
UnwrapSingletons(rev_dict) ==
    [i \in 1..Len(rev_dict) |->
        IF Len(rev_dict[i].v.v) = 1
        THEN [k |-> rev_dict[i].k, v |-> Scalar(rev_dict[i].v.v[1])]
        ELSE rev_dict[i]]

inverse_dict(d) == UnwrapSingletons(OverItems(<<>>, d, 1))

(* Python's == on dicts: the same keys with equal values, in any order. *)
DictEqual(d, e) ==
    /\ {d[i].k : i \in 1..Len(d)} = {e[i].k : i \in 1..Len(e)}
    /\ \A i \in 1..Len(d) : DictGet(e, d[i].k) = d[i].v

RECURSIVE ListsUpTo(_)
ListsUpTo(n) ==
    IF n = 0 THEN {<<>>}
    ELSE ListsUpTo(n - 1) \cup
         {Append(l, x) : l \in {l \in ListsUpTo(n - 1) : Len(l) = n - 1}, x \in 1..MaxVal}

Values == {Scalar(x) : x \in 1..MaxVal} \cup {List(l) : l \in ListsUpTo(MaxList)}

(* The first argument: a dict with the keys 1..n, inserted in ascending or *)
(* in descending order.                                                     *)
IdInit ==
    /\ id_pc = "call"
    /\ \E d \in UNION {[1..n -> Values] : n \in 0..MaxKeys}, ascending \in BOOLEAN :
          dictionary = LET items == [i \in 1..Len(d) |-> [k |-> i, v |-> d[i]]]
                       IN IF ascending THEN items ELSE Descending(items)
    /\ id_value = dictionary

InverseDict ==
    /\ id_pc \in {"call", "once"}
    /\ id_value' = inverse_dict(id_value)
    /\ id_pc' = IF id_pc = "call" THEN "once" ELSE "twice"
    /\ UNCHANGED dictionary

IdIdle ==
    /\ id_pc = "idle"
    /\ dictionary = <<>>
    /\ id_value = <<>>

(***************************************************************************)
(* Specifications: one call of ortho_connect (Spec), one call of           *)
(* check_intersection (SpecIntersection), one call of                      *)
(* smooth_surrounding_polygon (SpecSmooth), one call of calc_tols          *)
(* (SpecTols).                                                             *)
(***************************************************************************)
Init == OcInit /\ CiIdle /\ SmIdle /\ CtIdle /\ PpIdle /\ IdIdle

Next == OrthoConnect /\ UNCHANGED <<ci_vars, sm_vars, ct_vars, pp_vars, id_vars>>

Spec == Init /\ [][Next]_vars

InitIntersection == CiInit /\ OcIdle /\ SmIdle /\ CtIdle /\ PpIdle /\ IdIdle

NextIntersection == CheckIntersection /\ UNCHANGED <<oc_vars, sm_vars, ct_vars, pp_vars, id_vars>>

SpecIntersection == InitIntersection /\ [][NextIntersection]_vars

InitSmooth == SmInit /\ OcIdle /\ CiIdle /\ CtIdle /\ PpIdle /\ IdIdle

NextSmooth == SmoothSurroundingPolygon /\ UNCHANGED <<oc_vars, ci_vars, ct_vars, pp_vars, id_vars>>

SpecSmooth == InitSmooth /\ [][NextSmooth]_vars

InitTols == CtInit /\ OcIdle /\ CiIdle /\ SmIdle /\ PpIdle /\ IdIdle

NextTols == CalcTols /\ UNCHANGED <<oc_vars, ci_vars, sm_vars, pp_vars, id_vars>>

SpecTols == InitTols /\ [][NextTols]_vars

InitPruning == CtInitTwoPoint /\ OcIdle /\ CiIdle /\ SmIdle /\ PpIdle /\ IdIdle

SpecPruning == InitPruning /\ [][NextTols]_vars

InitPointInPoly == PpInit /\ OcIdle /\ CiIdle /\ SmIdle /\ CtIdle /\ IdIdle

NextPointInPoly == PointInPoly /\ UNCHANGED <<oc_vars, ci_vars, sm_vars, ct_vars, id_vars>>

SpecPointInPoly == InitPointInPoly /\ [][NextPointInPoly]_vars

InitInverse == IdInit /\ OcIdle /\ CiIdle /\ SmIdle /\ CtIdle /\ PpIdle

NextInverse == InverseDict /\ UNCHANGED <<oc_vars, ci_vars, sm_vars, ct_vars, pp_vars>>

SpecInverse == InitInverse /\ [][NextInverse]_vars

(***************************************************************************)
(* One call of ortho_connect with rectangles of the MaxSquare x MaxSquare  *)
(* corner of the grid, for the properties that repeat the call.            *)
(***************************************************************************)
CornerRects == {r \in GridRects : r.x + r.width <= MaxSquare /\ r.y + r.height <= MaxSquare}

InitOrder == Init /\ \A i \in 1..Len(rectangles) : rectangles[i] \in CornerRects

SpecOrder == InitOrder /\ [][Next]_vars

(***************************************************************************)
(* One call of any of the three functions that take lists from the caller; *)
(* ortho_connect is called with fewer than MaxRects rectangles.            *)
(***************************************************************************)
InitCore == (Init /\ Len(rectangles) < MaxRects) \/ InitSmooth \/ InitTols

NextCore == Next \/ NextSmooth \/ NextTols

SpecCore == InitCore /\ [][NextCore]_vars

(***************************************************************************)
(* Geometry used to state the properties.                                  *)
(***************************************************************************)
Min2(a, b) == IF a < b THEN a ELSE b

Max2(a, b) == IF a < b THEN b ELSE a

RectArea(r) == r.width * r.height

InterW(a, b) == Min2(a.x + a.width, b.x + b.width) - Max2(a.x, b.x)

InterH(a, b) == Min2(a.y + a.height, b.y + b.height) - Max2(a.y, b.y)

InteriorsMeet(a, b) == InterW(a, b) > 0 /\ InterH(a, b) > 0

ClosedDisjoint(a, b) == InterW(a, b) < 0 \/ InterH(a, b) < 0

(* every point of b is a point of a *)
RectInside(b, a) ==
    /\ a.x <= b.x /\ b.x + b.width <= a.x + a.width
    /\ a.y <= b.y /\ b.y + b.height <= a.y + a.height

UnionArea(a, b) ==
    RectArea(a) + RectArea(b) - (IF InteriorsMeet(a, b) THEN InterW(a, b) * InterH(a, b) ELSE 0)

(* disjoint interiors and one complete edge in common *)
ShareCompleteEdge(a, b) ==
    \/ /\ a.y = b.y /\ a.height = b.height
       /\ (a.x + a.width = b.x \/ b.x + b.width = a.x)
    \/ /\ a.x = b.x /\ a.width = b.width
       /\ (a.y + a.height = b.y \/ b.y + b.height = a.y)

Corners(r) ==
    {<<r.x, r.y>>, <<r.x + r.width, r.y>>, <<r.x, r.y + r.height>>,
     <<r.x + r.width, r.y + r.height>>}

PolyPoints(poly) == {poly[i] : i \in 1..Len(poly)}

Succ(poly, i) == poly[(i % Len(poly)) + 1]

RECURSIVE ShoelaceSum(_, _)
ShoelaceSum(poly, i) ==
    IF i > Len(poly) THEN 0
    ELSE poly[i][1] * Succ(poly, i)[2] - Succ(poly, i)[1] * poly[i][2] + ShoelaceSum(poly, i + 1)

(* twice the shoelace area *)
Shoelace2(poly) == Abs(ShoelaceSum(poly, 1))

Orient(p, q, r) == (q[1] - p[1]) * (r[2] - p[2]) - (q[2] - p[2]) * (r[1] - p[1])

InBox(p, q, r) ==
    /\ Min2(p[1], q[1]) <= r[1] /\ r[1] <= Max2(p[1], q[1])
    /\ Min2(p[2], q[2]) <= r[2] /\ r[2] <= Max2(p[2], q[2])

(* the closed segments pq and rs have a common point *)
SegmentsMeet(p, q, r, s) ==
    \/ /\ (Orient(p, q, r) > 0) # (Orient(p, q, s) > 0)
       /\ (Orient(p, q, r) < 0) # (Orient(p, q, s) < 0)
       /\ (Orient(r, s, p) > 0) # (Orient(r, s, q) > 0)
       /\ (Orient(r, s, p) < 0) # (Orient(r, s, q) < 0)
    \/ Orient(p, q, r) = 0 /\ InBox(p, q, r)
    \/ Orient(p, q, s) = 0 /\ InBox(p, q, s)
    \/ Orient(r, s, p) = 0 /\ InBox(r, s, p)
    \/ Orient(r, s, q) = 0 /\ InBox(r, s, q)

AdjacentEdges(n, i, j) == j = i + 1 \/ (i = 1 /\ j = n)

SimplePolygon(poly) ==
    /\ Cardinality(PolyPoints(poly)) = Len(poly)
    /\ \A i \in 1..Len(poly) : \A j \in (i + 1)..Len(poly) :
          AdjacentEdges(Len(poly), i, j)
          \/ ~SegmentsMeet(poly[i], Succ(poly, i), poly[j], Succ(poly, j))

OcDone == oc_pc = "done"

TwoRects == OcDone /\ Len(rectangles) = 2

(***************************************************************************)
(* Properties of ortho_connect, checked under Spec.                        *)
(***************************************************************************)

(* C1: two rectangles that partially overlap (interiors intersect, neither *)
(* contains the other) yield exactly one polygon whose shoelace area is    *)
(* the area of their union.                                                *)
C1_OverlapUnionArea ==
    (/\ TwoRects
     /\ InteriorsMeet(rectangles[1], rectangles[2])
     /\ ~RectInside(rectangles[1], rectangles[2])
     /\ ~RectInside(rectangles[2], rectangles[1]))
    => /\ oc_raised = "none"
       /\ Len(final_polygons) = 1
       /\ Shoelace2(final_polygons[1]) = 2 * UnionArea(rectangles[1], rectangles[2])

PairwiseDisjoint(rects) ==
    \A i \in 1..Len(rects) : \A j \in (i + 1)..Len(rects) : ClosedDisjoint(rects[i], rects[j])

(* C2: k >= 1 rectangles with pairwise disjoint closed regions yield       *)
(* exactly k polygons, each made of the four corners of one distinct       *)
(* input rectangle.                                                        *)
C2_DisjointRectsKept ==
    (OcDone /\ Len(rectangles) >= 1 /\ PairwiseDisjoint(rectangles))
    => /\ oc_raised = "none"
       /\ Len(final_polygons) = Len(rectangles)
       /\ \E f \in [1..Len(rectangles) -> 1..Len(rectangles)] :
             /\ \A i, j \in 1..Len(rectangles) : f[i] = f[j] => i = j
             /\ \A i \in 1..Len(rectangles) :
                   /\ Len(final_polygons[i]) = 4
                   /\ PolyPoints(final_polygons[i]) = Corners(rectangles[f[i]])

C2_Witness ==
    /\ TwoRects
    /\ ClosedDisjoint(rectangles[1], rectangles[2])
    /\ Len(final_polygons) = 2

(* C3: a rectangle B inside a different rectangle A, in either list order, *)
(* yields exactly one polygon, made of the four corners of A.              *)
C3_InnerDiscarded ==
    \A a, b \in 1..2 :
        (/\ TwoRects
         /\ a # b
         /\ rectangles[a] # rectangles[b]
         /\ RectInside(rectangles[b], rectangles[a]))
        => /\ oc_raised = "none"
           /\ Len(final_polygons) = 1
           /\ Len(final_polygons[1]) = 4
           /\ PolyPoints(final_polygons[1]) = Corners(rectangles[a])

(* C4: two rectangles with disjoint interiors that share one complete edge *)
(* yield exactly one polygon with four vertices whose area is the sum of   *)
(* the two areas; the two shared corners do not survive the parity filter. *)
C4_SharedEdgeMerged ==
    (TwoRects /\ ShareCompleteEdge(rectangles[1], rectangles[2]))
    => /\ oc_raised = "none"
       /\ Len(final_polygons) = 1
       /\ Len(final_polygons[1]) = 4
       /\ Shoelace2(final_polygons[1]) = 2 * (RectArea(rectangles[1]) + RectArea(rectangles[2]))
       /\ points \cap (Corners(rectangles[1]) \cap Corners(rectangles[2])) = {}

C4_Witness ==
    /\ OcDone
    /\ rectangles = <<Rectangle(0, 0, 1, 1), Rectangle(1, 0, 1, 1)>>
    /\ Len(final_polygons) = 1
    /\ Shoelace2(final_polygons[1]) = 4

(* C5: every returned polygon, for a non-empty list of rectangles of       *)
(* positive size, is simple: no vertex twice, no two non-adjacent edges    *)
(* with a common point.                                                    *)
C5_PolygonsSimple ==
    (OcDone /\ Len(rectangles) >= 1)
    => \A i \in 1..Len(final_polygons) : SimplePolygon(final_polygons[i])

Even(n) == n % 2 = 0

(* C6: after the parity filter the number of surviving vertices in every   *)
(* row and in every column is even, and the pairing loops never read past  *)
(* the end of the sorted lists.                                            *)
C6_EvenRowsAndColumns ==
    OcDone
    => /\ \A p \in points : Even(Cardinality({q \in points : q[2] = p[2]}))
       /\ \A p \in points : Even(Cardinality({q \in points : q[1] = p[1]}))
       /\ oc_raised # "IndexError"

C6_Witness ==
    /\ TwoRects
    /\ Corners(rectangles[1]) \cap Corners(rectangles[2]) # {}
    /\ rectangles[1] # rectangles[2]
    /\ points # {}
    /\ oc_raised = "none"

(* C7: a call with an empty list of rectangles fails with an error instead *)
(* of returning a result.                                                  *)
C7_EmptyListFails ==
    (OcDone /\ rectangles = <<>>) => oc_raised # "none"

(***************************************************************************)
(* Properties of check_intersection, checked under SpecIntersection.       *)
(***************************************************************************)
P1(l) == <<l[1][1], l[2][1]>>

P2(l) == <<l[1][2], l[2][2]>>

NonZero(l) == P1(l) # P2(l)

CollinearLines(l1, l2) ==
    /\ Orient(P1(l1), P2(l1), P1(l2)) = 0
    /\ Orient(P1(l1), P2(l1), P2(l2)) = 0

(* the point with rational coordinates x, y lies on the closed segment pq *)
RatOnSeg(x, y, p, q) ==
    /\ (q[1] - p[1]) * (y.n - p[2] * y.d) * x.d = (q[2] - p[2]) * (x.n - p[1] * x.d) * y.d
    /\ Min2(p[1], q[1]) * x.d <= x.n /\ x.n <= Max2(p[1], q[1]) * x.d
    /\ Min2(p[2], q[2]) * y.d <= y.n /\ y.n <= Max2(p[2], q[2]) * y.d

Lo(l) == IF TupleLess(P1(l), P2(l)) THEN P1(l) ELSE P2(l)

Hi(l) == IF TupleLess(P1(l), P2(l)) THEN P2(l) ELSE P1(l)

(* the ends of the common part of two collinear segments *)
OverlapLo == IF TupleLess(Lo(line_1), Lo(line_2)) THEN Lo(line_2) ELSE Lo(line_1)

OverlapHi == IF TupleLess(Hi(line_1), Hi(line_2)) THEN Hi(line_1) ELSE Hi(line_2)

CiDone == ci_pc = "done"

ProperPair == CiDone /\ NonZero(line_1) /\ NonZero(line_2)

C9_CollinearOverlapIsInf ==
    (ProperPair /\ CollinearLines(line_1, line_2) /\ TupleLess(OverlapLo, OverlapHi))
    => ci_result.kind = "inf"

(* C10: two collinear segments of non-zero length whose only common point  *)
(* is an endpoint of each yield that endpoint, whatever the argument and   *)
(* endpoint order.                                                         *)
C10_SharedEndpointReturned ==
    (ProperPair /\ CollinearLines(line_1, line_2) /\ OverlapLo = OverlapHi)
    => ci_result = [kind |-> "point", x |-> Rat(OverlapLo[1], 1), y |-> Rat(OverlapLo[2], 1)]

(* C11: for every pair of segments of non-zero length the call ends with   *)
(* None, an intersection point or the sentinel, never with a division by   *)
(* zero or a singular-matrix error.                                        *)
C11_NoArithmeticError ==
    ProperPair => ci_result.kind \in {"None", "point", "inf"}

(***************************************************************************)
(* Properties of smooth_surrounding_polygon, checked under SpecSmooth.     *)
(***************************************************************************)
SmDone == sm_pc = "done"

Rotations(p) ==
    {[i \in 1..Len(p) |-> p[((i + k - 1) % Len(p)) + 1]] : k \in 0..(Len(p) - 1)}

RectangleCall ==
    /\ SmDone
    /\ Len(polygons) = 1
    /\ polygons[1] \in RectanglePolygons
    /\ poly_norm_dist = DefaultDist
    /\ or_dims = DefaultDims

(* C13: an axis-aligned rectangle given by its four corners, smoothed with *)
(* the default spacing and probe sizes, comes back as a rotation of the    *)
(* input, and smoothing the result again gives the same rectangle.         *)
C13_RectangleRoundTrip ==
    RectangleCall
    => /\ sm_raised = "none"
       /\ sm_result \in Rotations(polygons[1])
       /\ \E again \in {smooth_surrounding_polygon(<<sm_result>>, poly_norm_dist, or_dims)} :
             /\ again.raised = "none"
             /\ again.result \in Rotations(polygons[1])

C13_Witness ==
    /\ RectangleCall
    /\ polygons[1][1] # <<0, 0>>
    /\ polygons[1][2][1] = polygons[1][1][1]
    /\ sm_result \in Rotations(polygons[1])
    /\ sm_result # polygons[1]
    /\ sm_classified = sm_collapsed

(***************************************************************************)
(* calc_tols.  The baselines are horizontal: the inline distance of two    *)
(* points is the difference of their x and the offline distance the        *)
(* difference of their y.  The baseline b is a qualifying neighbour of the *)
(* baseline a when the two are different entries of the list, their spans  *)
(* from first to last point meet, and a point of a lies within two ticks   *)
(* inline of a point of b; its distances are the offline distances of      *)
(* these pairs of points.                                                  *)
(***************************************************************************)
CtDone == ct_pc = "done"

SpansMeet(poly_a, poly_b) ==
    /\ poly_b[1][1] <= poly_a[Len(poly_a)][1]
    /\ poly_a[1][1] <= poly_b[Len(poly_b)][1]

NeighbourDistances(a) ==
    LET poly_a == polys_truth[a]
        Near(poly_b) == {p \in (1..Len(poly_a)) \X (1..Len(poly_b)) :
                            Abs(poly_a[p[1]][1] - poly_b[p[2]][1]) <= 2 * tick_dist}
    IN UNION {{Abs(poly_a[p[1]][2] - polys_truth[b][p[2]][2]) : p \in Near(polys_truth[b])} :
              b \in {k \in (1..Len(polys_truth)) \ {a} : SpansMeet(poly_a, polys_truth[k])}}

NoNeighbourBelowMaxD ==
    \A a \in 1..Len(polys_truth) : \A d \in NeighbourDistances(a) : d >= max_d

(* C14: when no baseline has a qualifying neighbour closer than max_d,    *)
(* every tolerance calc_tols returns (one per baseline) is rel_tol * max_d. *)
C14_FallbackToMaxD ==
    (CtDone /\ NoNeighbourBelowMaxD)
    => /\ Len(ct_tols) = Len(polys_truth)
       /\ \A a \in 1..Len(ct_tols) : ct_tols[a] = RatMul(rel_tol, Rat(max_d, 1))

(* two baselines whose spans meet and that are max_d or more apart *)
C14_Witness ==
    /\ CtDone
    /\ NoNeighbourBelowMaxD
    /\ Len(polys_truth) = 2
    /\ NeighbourDistances(1) # {}
    /\ ct_tols = <<RatMul(rel_tol, Rat(max_d, 1)), RatMul(rel_tol, Rat(max_d, 1))>>

(***************************************************************************)
(* C15: for two parallel horizontal baselines with the same x-extent and   *)
(* a vertical offset d, 0 < d < max_d, calc_tols returns                   *)
(* [rel_tol * d, rel_tol * d]; with tick_dist = 5, max_d = 250,            *)
(* rel_tol = 0.25 and d = 20 that is [5.0, 5.0].                           *)
(***************************************************************************)
Horizontal(poly) == \A k \in 1..Len(poly) : poly[k][2] = poly[1][2]

Offset == Abs(polys_truth[1][1][2] - polys_truth[2][1][2])

TwoParallelBaselines ==
    /\ CtDone
    /\ Len(polys_truth) = 2
    /\ Horizontal(polys_truth[1])
    /\ Horizontal(polys_truth[2])
    /\ [k \in 1..Len(polys_truth[1]) |-> polys_truth[1][k][1]]
         = [k \in 1..Len(polys_truth[2]) |-> polys_truth[2][k][1]]
    /\ 0 < Offset
    /\ Offset < max_d

C15_ParallelPair ==
    TwoParallelBaselines
    => /\ ct_tols = <<RatMul(rel_tol, Rat(Offset, 1)), RatMul(rel_tol, Rat(Offset, 1))>>
       /\ (tick_dist = 5 /\ max_d = 250 /\ rel_tol = Rat(1, 4) /\ Offset = 20)
          => ct_tols = <<Rat(5, 1), Rat(5, 1)>>

C15_Witness ==
    /\ TwoParallelBaselines
    /\ tick_dist = 5
    /\ max_d = 250
    /\ rel_tol = Rat(1, 4)
    /\ Offset = 20
    /\ ct_recorded = <<20, 20>>
    /\ ct_tols = <<Rat(5, 1), Rat(5, 1)>>

(***************************************************************************)
(* C16: calc_tols returns one value per baseline, in the order of the      *)
(* input: the a-th recorded distance is that of the a-th baseline (its     *)
(* least neighbour distance when that is below max_d, else 0), and with M  *)
(* the mean of the non-zero recorded distances (max_d when there is none)  *)
(* the a-th value is rel_tol * min(r, M) for a recorded distance r # 0 and *)
(* rel_tol * M for r = 0; every value lies between 0 and rel_tol * M.      *)
(***************************************************************************)
RecordedNonZero == {a \in 1..Len(ct_recorded) : ct_recorded[a] # 0}

MeanRecorded ==
    IF RecordedNonZero = {} THEN Rat(max_d, 1)
    ELSE Rat(SumSeq(ct_recorded, 1), Cardinality(RecordedNonZero))

RatMin(a, b) == IF RatLess(b, a) THEN b ELSE a

LeastDistance(a) ==
    IF \E d \in NeighbourDistances(a) : d < max_d
    THEN SetMin(NeighbourDistances(a)) ELSE 0

C16_OnePerBaselineClamped ==
    CtDone
    => /\ Len(ct_recorded) = Len(polys_truth)
       /\ Len(ct_tols) = Len(polys_truth)
       /\ \A a \in 1..Len(polys_truth) :
             /\ ct_recorded[a] = LeastDistance(a)
             /\ ct_tols[a] = IF ct_recorded[a] # 0
                             THEN RatMul(rel_tol, RatMin(Rat(ct_recorded[a], 1), MeanRecorded))
                             ELSE RatMul(rel_tol, MeanRecorded)
             /\ ~RatLess(ct_tols[a], Rat(0, 1))
             /\ ~RatLess(RatMul(rel_tol, MeanRecorded), ct_tols[a])

(* one distance above the mean, which is clamped, and one below it, which is kept *)
C16_Witness ==
    /\ CtDone
    /\ \E a, b \in 1..Len(ct_recorded) :
          /\ ct_recorded[a] # 0
          /\ RatLess(MeanRecorded, Rat(ct_recorded[a], 1))
          /\ ct_tols[a] = RatMul(rel_tol, MeanRecorded)
          /\ ct_recorded[b] # 0
          /\ RatLess(Rat(ct_recorded[b], 1), MeanRecorded)
          /\ ct_tols[b] = RatMul(rel_tol, Rat(ct_recorded[b], 1))

(***************************************************************************)
(* C17: ortho_connect, smooth_surrounding_polygon and calc_tols leave what *)
(* the caller passed in as it was: after the call the list of rectangles,  *)
(* the point list of every input polygon (an unclosed polygon is closed on *)
(* a copy) and every baseline are equal to their values before the call.   *)
(***************************************************************************)
C17_InputsNotMutated ==
    [][/\ rectangles' = rectangles
       /\ polygons' = polygons
       /\ polys_truth' = polys_truth]_vars

(* an unclosed polygon has been smoothed *)
C17_Witness ==
    /\ SmDone
    /\ sm_processed = <<1>>
    /\ polygons[1][1] # polygons[1][Len(polygons[1])]
    /\ sm_raised = "none"
    /\ sm_result # <<>>

(***************************************************************************)
(* C18: every vertex gets exactly one of the six tags, fixed by the two    *)
(* probe directions with the highest counts: {N,S} vertical, {E,W}         *)
(* horizontal, {E,S} corner_ul, {W,S} corner_ur, {W,N} corner_dr, {E,N}    *)
(* corner_dl.  Equal counts are ranked in the order N, E, S, W; a vertex   *)
(* whose four counts are equal is tagged corner_dl.                        *)
(***************************************************************************)
Directions == <<"n", "e", "s", "w">>

Rank(d) == CHOOSE k \in 1..4 : Directions[k] = d

CountOf(i, d) == sm_counts[i][Rank(d)].v

Outranks(i, e, d) ==
    \/ CountOf(i, e) > CountOf(i, d)
    \/ CountOf(i, e) = CountOf(i, d) /\ Rank(e) < Rank(d)

HighestTwo(i) ==
    {d \in {"n", "e", "s", "w"} :
        Cardinality({e \in {"n", "e", "s", "w"} : Outranks(i, e, d)}) < 2}

TagOf(pair) ==
    CASE pair = {"n", "s"} -> "vertical"
      [] pair = {"e", "w"} -> "horizontal"
      [] pair = {"e", "s"} -> "corner_ul"
      [] pair = {"w", "s"} -> "corner_ur"
      [] pair = {"w", "n"} -> "corner_dr"
      [] pair = {"e", "n"} -> "corner_dl"

EqualCounts(i) == \A d \in {"e", "s", "w"} : CountOf(i, d) = CountOf(i, "n")

C18_TagFromTopTwo ==
    (SmDone /\ sm_processed # <<>>)
    => /\ Len(sm_classified) = Len(polygons[1])
       /\ Len(sm_counts) = Len(polygons[1])
       /\ \A i \in 1..Len(sm_classified) :
             /\ sm_classified[i] \in Tags
             /\ sm_classified[i] = TagOf(HighestTwo(i))
             /\ EqualCounts(i) => sm_classified[i] = "corner_dl"

(* a vertex with four equal counts beside a vertex on an edge *)
C18_Witness ==
    /\ SmDone
    /\ sm_processed # <<>>
    /\ \E i, j \in 1..Len(sm_classified) :
          /\ EqualCounts(i)
          /\ sm_classified[i] = "corner_dl"
          /\ sm_classified[j] \in {"vertical", "horizontal"}

(***************************************************************************)
(* C19: the denoising pass is one pass over the orientations as            *)
(* classified: afterwards a vertex carries its neighbours' orientation     *)
(* exactly when, in the classified labelling, its orientation differed     *)
(* from both cyclic neighbours and the two agreed with each other; every   *)
(* other vertex keeps its classified orientation.                          *)
(***************************************************************************)
Before(i) == IF i = 1 THEN Len(sm_classified) ELSE i - 1

After(i) == (i % Len(sm_classified)) + 1

SingleAsClassified(i) ==
    /\ sm_classified[i] # sm_classified[Before(i)]
    /\ sm_classified[Before(i)] = sm_classified[After(i)]

Denoised == SmDone /\ sm_processed # <<>>

C19_DenoiseAsClassified ==
    Denoised
    => /\ Len(sm_denoised) = Len(sm_classified)
       /\ \A i \in 1..Len(sm_classified) :
             sm_denoised[i] = IF SingleAsClassified(i)
                              THEN sm_classified[Before(i)] ELSE sm_classified[i]

(***************************************************************************)
(* C19 as the code has it: the pass goes through the list once in vertex   *)
(* order and relabels in place.  A vertex takes its neighbours'            *)
(* orientation exactly when, in the classified labelling, it differed from *)
(* both cyclic neighbours, the two agreed, and the pass has not relabelled *)
(* the vertex before it in the list nor, for the last vertex, the first    *)
(* vertex; every other vertex keeps its classified orientation.            *)
(***************************************************************************)
RelabelledInPlace ==
    LET n == Len(sm_classified)
        relabelled[i \in 1..n] == SingleAsClassified(i) /\ (i = 1 \/ ~relabelled[i - 1])
    IN {i \in 1..n : relabelled[i] /\ (i = n => ~relabelled[1])}

C19_DenoiseInPlace ==
    Denoised
    => /\ Len(sm_denoised) = Len(sm_classified)
       /\ \A i \in 1..Len(sm_classified) :
             sm_denoised[i] = IF i \in RelabelledInPlace
                              THEN sm_classified[Before(i)] ELSE sm_classified[i]

(* a vertex is relabelled, and the next one, single as classified, is not *)
C19_Witness ==
    /\ Denoised
    /\ \E i \in 1..Len(sm_classified) :
          /\ i \in RelabelledInPlace
          /\ sm_denoised[i] = sm_classified[Before(i)]
          /\ SingleAsClassified(After(i))
          /\ sm_denoised[After(i)] = sm_classified[After(i)]

(***************************************************************************)
(* C20: after the corner-collapsing pass, in every maximal run of two or   *)
(* more consecutive vertices with the same corner tag (the list is cyclic: *)
(* a run may go on from the last vertex to the first) exactly one member   *)
(* still has the corner tag, the one with the least y for corner_ul and    *)
(* corner_ur and with the greatest y for corner_dl and corner_dr, and      *)
(* every other member is tagged vertical.                                  *)
(***************************************************************************)
Collapsed == SmDone /\ sm_processed # <<>> /\ sm_raised # "diverges"

(* the indices from i on to j, going round the list *)
Stretch(i, j) ==
    LET n == Len(sm_denoised)
    IN {((i - 1 + k) % n) + 1 : k \in 0..((j - i + n) % n)}

RunOf(i) ==
    {j \in 1..Len(sm_denoised) :
        \/ \A k \in Stretch(i, j) : sm_denoised[k] = sm_denoised[i]
        \/ \A k \in Stretch(j, i) : sm_denoised[k] = sm_denoised[i]}

YOf(i) == polygons[1][i][2]

KeptIn(run, tag) == {j \in run : sm_collapsed[j] = tag}

C20_OneCornerPerRun ==
    Collapsed
    => \A i \in 1..Len(sm_denoised) :
          (sm_denoised[i] \in CornerTags /\ Cardinality(RunOf(i)) >= 2)
          => /\ Cardinality(KeptIn(RunOf(i), sm_denoised[i])) = 1
             /\ \A j \in KeptIn(RunOf(i), sm_denoised[i]) :
                   IF sm_denoised[i] \in {"corner_ul", "corner_ur"}
                   THEN \A k \in RunOf(i) : YOf(j) <= YOf(k)
                   ELSE \A k \in RunOf(i) : YOf(k) <= YOf(j)
             /\ \A j \in RunOf(i) \ KeptIn(RunOf(i), sm_denoised[i]) :
                   sm_collapsed[j] = "vertical"

(***************************************************************************)
(* C21: in ortho_connect every traversal comes back to its start vertex    *)
(* without popping an edge that is no longer there, and the polygons       *)
(* traced (before nested polygons are removed) partition the surviving     *)
(* vertices: each occurs in exactly one traced polygon, exactly once.      *)
(* Cyclically consecutive vertices of a traced polygon share their x and   *)
(* their y in turn.                                                        *)
(***************************************************************************)
Occurrences(pt) ==
    {<<k, i>> \in (1..Len(all_polygons)) \X (1..Cardinality(points)) :
        i <= Len(all_polygons[k]) /\ all_polygons[k][i] = pt}

SharesX(poly, i) == poly[i][1] = poly[(i % Len(poly)) + 1][1]

SharesY(poly, i) == poly[i][2] = poly[(i % Len(poly)) + 1][2]

C21_TracedPolygonsPartition ==
    OcDone
    => /\ oc_raised = "none"
       /\ \A pt \in points : Cardinality(Occurrences(pt)) = 1
       /\ \A k \in 1..Len(all_polygons) :
             /\ Len(all_polygons[k]) <= Cardinality(points)
             /\ \A i \in 1..Len(all_polygons[k]) :
                   /\ all_polygons[k][i] \in points
                   /\ SharesX(all_polygons[k], i) # SharesY(all_polygons[k], i)
                   /\ SharesX(all_polygons[k], i)
                        # SharesX(all_polygons[k], (i % Len(all_polygons[k])) + 1)

(* a traced polygon with more than four vertices *)
C21_Witness ==
    /\ OcDone
    /\ oc_raised = "none"
    /\ Len(all_polygons) = 1
    /\ Len(all_polygons[1]) > 4
    /\ Len(all_polygons[1]) = Cardinality(points)

(***************************************************************************)
(* C22: testing one vertex is enough for the removal of nested polygons.   *)
(* Whenever the first vertex of a traced polygon P is inside another       *)
(* traced polygon Q by the ray-casting test, every vertex of P is inside   *)
(* or on the boundary of Q; so a polygon with a vertex strictly outside    *)
(* every other polygon is not discarded.  The vertices are grid points: a  *)
(* point is inside or on the boundary of Q when it lies on an edge of Q or *)
(* one of the four unit cells around it is inside Q, which the crossing    *)
(* count decides at the centre of the cell (coordinates doubled).          *)
(***************************************************************************)
OnEdge(poly, i, pt) ==
    LET a == poly[i]
        b == poly[(i % Len(poly)) + 1]
    IN \/ /\ a[1] = b[1] /\ pt[1] = a[1]
          /\ (a[2] <= pt[2] /\ pt[2] <= b[2]) \/ (b[2] <= pt[2] /\ pt[2] <= a[2])
       \/ /\ a[2] = b[2] /\ pt[2] = a[2]
          /\ (a[1] <= pt[1] /\ pt[1] <= b[1]) \/ (b[1] <= pt[1] /\ pt[1] <= a[1])

Doubled(poly) == [i \in 1..Len(poly) |-> <<2 * poly[i][1], 2 * poly[i][2]>>]

CellInside(poly, cx, cy) == point_in_poly(Doubled(poly), <<2 * cx + 1, 2 * cy + 1>>)

InsideOrOnBoundary(poly, pt) ==
    \/ \E i \in 1..Len(poly) : OnEdge(poly, i, pt)
    \/ \E dx, dy \in {-1, 0} : CellInside(poly, pt[1] + dx, pt[2] + dy)

Traced == OcDone /\ oc_raised = "none"

InFinal(poly) == \E k \in 1..Len(final_polygons) : final_polygons[k] = poly

C22_OneVertexSuffices ==
    Traced
    => \A p \in 1..Len(all_polygons) :
          /\ \A q \in (1..Len(all_polygons)) \ {p} :
                point_in_poly(all_polygons[q], all_polygons[p][1])
                => \A i \in 1..Len(all_polygons[p]) :
                      InsideOrOnBoundary(all_polygons[q], all_polygons[p][i])
          /\ (\E i \in 1..Len(all_polygons[p]) :
                 \A q \in (1..Len(all_polygons)) \ {p} :
                    ~InsideOrOnBoundary(all_polygons[q], all_polygons[p][i]))
             => InFinal(all_polygons[p])

(***************************************************************************)
(* C23: on a polygon that is an axis-parallel rectangle with the corners   *)
(* (x0, y0) and (x1, y1), point_in_poly is true exactly for the points     *)
(* with x0 <= px < x1 and y0 <= py < y1: the left and the top edge belong  *)
(* to the inside, the right and the bottom edge do not.                    *)
(***************************************************************************)
PpDone == pp_pc = "done"

PathXs == {pp_poly[i][1] : i \in 1..Len(pp_poly)}

PathYs == {pp_poly[i][2] : i \in 1..Len(pp_poly)}

HalfOpen ==
    /\ SetMin(PathXs) <= pp_point[1] /\ pp_point[1] < SetMax(PathXs)
    /\ SetMin(PathYs) <= pp_point[2] /\ pp_point[2] < SetMax(PathYs)

C23_HalfOpenRectangle == PpDone => (pp_result = HalfOpen)

(* A point on the left edge is inside while the call has also been made    *)
(* with the polygon listed backwards from another corner.                  *)
C23_Witness ==
    /\ PpDone
    /\ pp_result = TRUE
    /\ pp_point[1] = SetMin(PathXs)
    /\ pp_point[2] > SetMin(PathYs)
    /\ pp_poly[1] = <<SetMax(PathXs), SetMax(PathYs)>>
    /\ pp_poly[2][1] = SetMax(PathXs)

(***************************************************************************)
(* C25: inverse_dict is its own inverse: for a dict whose values are       *)
(* hashable scalars or lists of hashable values, the result of the second  *)
(* of two calls in a row equals the argument of the first.                 *)
(***************************************************************************)
C25_InverseTwice == id_pc = "twice" => DictEqual(id_value, dictionary)

(***************************************************************************)
(* C24: when the first two corners of the rotated list are a mixed pair    *)
(* (corner_ul with corner_dr, or corner_ur with corner_dl), the first edge *)
(* is vertical if the two corners are closer in x than in y, and           *)
(* horizontal otherwise.                                                   *)
(***************************************************************************)
Emitted == SmDone /\ sm_first_edge # "none"

FirstCorner ==
    CHOOSE i \in 1..Len(sm_collapsed) :
        sm_collapsed[i] \in CornerTags /\ \A k \in 1..(i - 1) : sm_collapsed[k] \notin CornerTags

(* the corner that follows the first one; the first one again when it is   *)
(* the only corner, since line 319 repeats it at the end of the list       *)
SecondCorner ==
    LET later == {i \in (FirstCorner + 1)..Len(sm_collapsed) : sm_collapsed[i] \in CornerTags}
    IN IF later = {} THEN FirstCorner ELSE SetMin(later)

MixedPair ==
    {sm_collapsed[FirstCorner], sm_collapsed[SecondCorner]}
        \in {{"corner_ul", "corner_dr"}, {"corner_ur", "corner_dl"}}

XGap == Abs(polygons[1][FirstCorner][1] - polygons[1][SecondCorner][1])

YGap == Abs(polygons[1][FirstCorner][2] - polygons[1][SecondCorner][2])

C24_MixedPairByGap ==
    (Emitted /\ MixedPair)
    => sm_first_edge = IF XGap < YGap THEN "vertical" ELSE "horizontal"

(***************************************************************************)
(* C28: the call ends, with a result or an error, for every non-empty      *)
(* polygon: the scan of line 293 stops even when every vertex carries the  *)
(* same corner tag, a polygon of one vertex included.                      *)
(***************************************************************************)
C28_ScanStops == (SmDone /\ sm_processed # <<>>) => sm_raised # "diverges"

(***************************************************************************)
(* C29: every edge of the returned polygon, the closing edge from the last *)
(* vertex to the first included, is horizontal or vertical, for an even    *)
(* and for an odd number of coordinates in the list of line 329.           *)
(***************************************************************************)
Returned == SmDone /\ sm_raised = "none" /\ sm_result # <<>>

AxisParallel(p, q) == p[1] = q[1] \/ p[2] = q[2]

C29_AxisParallelEdges ==
    Returned
    => \A i \in 1..Len(sm_result) :
          AxisParallel(sm_result[i], sm_result[(i % Len(sm_result)) + 1])

(***************************************************************************)
(* C26: the result of ortho_connect depends only on the multiset of the    *)
(* rectangles: the call on any reordering of the list ends the same way    *)
(* and returns the same polygons, each with its vertices in the same       *)
(* order.                                                                  *)
(***************************************************************************)
Orders(n) == {p \in [1..n -> 1..n] : \A i, j \in 1..n : i # j => p[i] # p[j]}

Reordered(l, p) == [i \in 1..Len(l) |-> l[p[i]]]

C26_OrderIndependent ==
    OcDone
    => \A p \in Orders(Len(rectangles)) :
          \E again \in {ortho_connect(Reordered(rectangles, p))} :
             /\ again.raised = oc_raised
             /\ again.final = final_polygons

(* two different rectangles that are joined to one polygon *)
C26_Witness ==
    /\ OcDone
    /\ Len(rectangles) = 2
    /\ rectangles[1] # rectangles[2]
    /\ Len(final_polygons) = 1
    /\ Len(final_polygons[1]) > 4

(***************************************************************************)
(* C27: a second copy of a rectangle that is already in the list does not  *)
(* change the returned polygons: the call on the list without its last     *)
(* entry returns the same, and ortho_connect([R, R]) = ortho_connect([R]). *)
(***************************************************************************)
Front(l) == SubSeq(l, 1, Len(l) - 1)

LastRepeats ==
    /\ Len(rectangles) >= 2
    /\ \E i \in 1..(Len(rectangles) - 1) : rectangles[i] = rectangles[Len(rectangles)]

C27_RepeatedRectangle ==
    (OcDone /\ LastRepeats)
    => \E without \in {ortho_connect(Front(rectangles))} :
          /\ without.raised = oc_raised
          /\ without.final = final_polygons

(***************************************************************************)
(* C30: the skip of line 468 only saves work: for horizontal baselines     *)
(* with whole-numbered points at any spacing, in any order, the distance   *)
(* recorded for a baseline is the least of max_d and of the offline        *)
(* distances of its points to the points, at most 2 * tick_dist away       *)
(* inline, of every other baseline whose span meets its own.               *)
(***************************************************************************)
WithoutSkip(a) == SetMin(NeighbourDistances(a) \cup {max_d})

C30_SkipOnlySavesWork ==
    CtDone
    => \A a \in 1..Len(polys_truth) :
          ct_recorded[a] = IF WithoutSkip(a) < max_d THEN WithoutSkip(a) ELSE 0

=============================================================================
